---------------------------- MODULE Spec2Model ----------------------------
(***************************************************************************)
(* Model of helper_functions.py: the Big-Five survey pipeline.             *)
(*                                                                         *)
(* Each function of the file is a small sequential program; its locals are *)
(* the fields of one record variable, and its statements are the actions.  *)
(* A function ends in pc = "returned" or in pc = "raised" (an uncaught     *)
(* Python exception, named in the field error).                            *)
(*                                                                         *)
(*   ro  remove_outliers        cp  compute_psychometrics                  *)
(*   fc  filter_countries       ca  country_averages      pm  plot_map     *)
(*                                                                         *)
(* Floating point values are modelled exactly: percentiles are compared    *)
(* after scaling by 100, means are kept as <<sum, count>>, and the values  *)
(* of plot_map are integers in units of 1/1000.                            *)
(***************************************************************************)
EXTENDS Integers, Sequences, FiniteSets, Bags, TLC

VARIABLES ro, cp, fc, ca, pm

vars == <<ro, cp, fc, ca, pm>>

\* A function that is not being run in the specification at hand.
Idle == [pc |-> "idle"]

Last(s) == s[Len(s)]

(***************************************************************************)
(* filter_countries(dataframe, minvalues = 100)                            *)
(*                                                                         *)
(* Only the country column matters, so the dataframe is the bag of its     *)
(* country values (one copy per row).                                      *)
(***************************************************************************)
Countries == {"NONE", "US", "FR"}

\* The default of the keyword argument minvalues.
DefaultMinvalues == 100

\* The literal the counts are compared with.
CountLiteral == 100

\* Row counts of a country are within MaxExtra of 0 or of the literal.
MaxExtra == 2

CountChoices == (0..MaxExtra) \cup ((CountLiteral - MaxExtra)..(CountLiteral + MaxExtra))

MinvaluesChoices == {DefaultMinvalues, CountLiteral + 1} \cup (0..MaxExtra)

\* The dataframe whose country column holds c[x] rows of country x.
FrameOf(c) == [x \in {y \in Countries : c[y] > 0} |-> c[x]]

\* dataframe['country'].value_counts(): the count of every country that
\* occurs, as a Series (here: a function from the index to the counts).
value_counts(frame) == [x \in BagToSet(frame) |-> CopiesIn(x, frame)]

\* series[series.values > limit]
SeriesAbove(series, limit) ==
    [x \in {y \in DOMAIN series : series[y] > limit} |-> series[x]]

\* The orders series.index.to_list() can give: value_counts sorts by
\* descending count, and the order among equal counts is not fixed.
IndexLists(series) ==
    {s \in [1..Cardinality(DOMAIN series) -> DOMAIN series] :
        /\ \A i, j \in DOMAIN s : i # j => s[i] # s[j]
        /\ \A i, j \in DOMAIN s : i < j => series[s[i]] >= series[s[j]]}

\* list.remove(x) leaves the list alone (mutant: the removal is lost).
ListRemoveKept(list, x) == list

\* list.remove(x): the list without its first x (x is in the list).
ListRemove(list, x) ==
    LET i == CHOOSE k \in 1..Len(list) :
                 list[k] = x /\ \A j \in 1..(k - 1) : list[j] # x
    IN  [k \in 1..(Len(list) - 1) |-> IF k < i THEN list[k] ELSE list[k + 1]]

Range(list) == {list[i] : i \in DOMAIN list}

\* dataframe[dataframe['country'].isin(list)]
RowsIsin(frame, list) ==
    [x \in BagToSet(frame) \cap Range(list) |-> frame[x]]

InitFC ==
    /\ \E c \in [Countries -> CountChoices], m \in MinvaluesChoices :
          fc = [pc |-> "L105", dataframe |-> FrameOf(c), minvalues |-> m,
                counts |-> <<>>, country_list |-> <<>>,
                filtered_country |-> EmptyBag, error |-> "none"]
    /\ ro = Idle /\ cp = Idle /\ ca = Idle /\ pm = Idle

\* country_list=dataframe['country'].value_counts()
FC_ValueCounts ==
    /\ fc.pc = "L105"
    /\ fc' = [fc EXCEPT !.pc = "L106", !.counts = value_counts(fc.dataframe)]
    /\ UNCHANGED <<ro, cp, ca, pm>>

\* country_list=country_list[country_list.values>100]
FC_Threshold ==
    /\ fc.pc = "L106"
    /\ fc' = [fc EXCEPT !.pc = "L107",
                        !.counts = SeriesAbove(fc.counts, CountLiteral)]
    /\ UNCHANGED <<ro, cp, ca, pm>>

\* country_list=country_list.index.to_list()
FC_ToList ==
    /\ fc.pc = "L107"
    /\ \E s \in IndexLists(fc.counts) :
          fc' = [fc EXCEPT !.pc = "L108", !.country_list = s]
    /\ UNCHANGED <<ro, cp, ca, pm>>

\* country_list.remove('NONE'): ValueError when 'NONE' is not in the list.
FC_RemoveNone ==
    /\ fc.pc = "L108"
    /\ IF "NONE" \in Range(fc.country_list)
         THEN fc' = [fc EXCEPT !.pc = "L109",
                               !.country_list = ListRemove(fc.country_list, "NONE")]
         ELSE fc' = [fc EXCEPT !.pc = "raised", !.error = "ValueError"]
    /\ UNCHANGED <<ro, cp, ca, pm>>

\* filtered_country=dataframe[dataframe['country'].isin(country_list)]
\* return filtered_country
FC_Isin ==
    /\ fc.pc = "L109"
    /\ fc' = [fc EXCEPT !.pc = "returned",
                        !.filtered_country = RowsIsin(fc.dataframe, fc.country_list)]
    /\ UNCHANGED <<ro, cp, ca, pm>>

NextFC == FC_ValueCounts \/ FC_Threshold \/ FC_ToList \/ FC_RemoveNone \/ FC_Isin

SpecFC == InitFC /\ [][NextFC]_vars

\* The number of rows of country x in a dataframe.
RowCount(x, frame) == CopiesIn(x, frame)

\* C1 (as claimed): every country of the output has more than minvalues input
\* rows, and every row of a country other than 'NONE' with more than
\* minvalues input rows is in the output.
C1_MinvaluesDecides ==
    fc.pc = "returned" =>
        /\ \A x \in BagToSet(fc.filtered_country) :
              RowCount(x, fc.dataframe) > fc.minvalues
        /\ \A x \in Countries \ {"NONE"} :
              RowCount(x, fc.dataframe) > fc.minvalues
                  => RowCount(x, fc.filtered_country) = RowCount(x, fc.dataframe)

\* C5: a returned table has no 'NONE' row, whatever the count of 'NONE' in
\* the input; 'NONE' passes the count-based retention like any country and
\* is removed only afterwards.
C5_NoNoneInOutput ==
    /\ fc.pc = "returned" => RowCount("NONE", fc.filtered_country) = 0
    /\ (fc.pc = "L108" /\ RowCount("NONE", fc.dataframe) > CountLiteral)
          => "NONE" \in Range(fc.country_list)

C5_Witness ==
    /\ fc.pc = "returned"
    /\ RowCount("NONE", fc.dataframe) > CountLiteral
    /\ RowCount("US", fc.filtered_country) > 0
    /\ RowCount("FR", fc.dataframe) > 0
    /\ RowCount("FR", fc.filtered_country) = 0

\* C6 (as claimed): the function raises when no input row has country
\* 'NONE', and returns a table when 'NONE' occurs, with any count.
C6_RaisesOnlyWhenNoneAbsent ==
    /\ (fc.pc \in {"returned", "raised"} /\ RowCount("NONE", fc.dataframe) = 0)
          => fc.pc = "raised"
    /\ (fc.pc \in {"returned", "raised"} /\ RowCount("NONE", fc.dataframe) > 0)
          => fc.pc = "returned"


(***************************************************************************)
(* compute_psychometrics(dataframe)                                        *)
(*                                                                         *)
(* The five assignments are column-wise, so every row is scored alone: the *)
(* dataframe is one row, a function from its column names to its values.   *)
(* Column 'EXT1' is <<"EXT", 1>>; the score column 'E' is <<"E", 0>>.      *)
(***************************************************************************)
Groups == {"EXT", "AGR", "CSN", "EST", "OPN"}

ItemColumns == Groups \X (1..10)

\* The answers of the Likert scale.
ItemValues == 1..5

\* At most MaxVaried items of one group differ from the neutral answer.
MaxVaried == 2

NeutralRow == [c \in ItemColumns |-> 3]

\* The neutral row with the items D of group g answered as v says.
VariedRow(g, D, v) ==
    [c \in ItemColumns |-> IF c[1] = g /\ c[2] \in D THEN v[c[2]] ELSE NeutralRow[c]]

VariedSets == {S \in SUBSET (1..10) : Cardinality(S) <= MaxVaried}

\* dataframe[name] = values: the row with one more column.
WithColumn(row, name, value) == (<<name, 0>> :> value) @@ row

\* Lines 58-62.
ScoreE(d) ==
    20 + d[<<"EXT", 1>>] - d[<<"EXT", 2>>]
       + d[<<"EXT", 3>>] - d[<<"EXT", 4>>]
       + d[<<"EXT", 5>>] - d[<<"EXT", 6>>]
       + d[<<"EXT", 7>>] - d[<<"EXT", 8>>]
       + d[<<"EXT", 9>>] - d[<<"EXT", 10>>]

\* Lines 64-68.
ScoreA(d) ==
    14 - d[<<"AGR", 1>>] + d[<<"AGR", 2>>]
       - d[<<"AGR", 3>>] + d[<<"AGR", 4>>]
       - d[<<"AGR", 5>>] + d[<<"AGR", 6>>]
       - d[<<"AGR", 7>>] + d[<<"AGR", 8>>]
       + d[<<"AGR", 9>>] + d[<<"AGR", 10>>]

\* Mutant: the alternation of E carried through to the last two items.
ScoreCAlternating(d) ==
    14 + d[<<"CSN", 1>>] - d[<<"CSN", 2>>]
       + d[<<"CSN", 3>>] - d[<<"CSN", 4>>]
       + d[<<"CSN", 5>>] - d[<<"CSN", 6>>]
       + d[<<"CSN", 7>>] - d[<<"CSN", 8>>]
       + d[<<"CSN", 9>>] - d[<<"CSN", 10>>]

\* Lines 70-74.
ScoreC(d) ==
    14 + d[<<"CSN", 1>>] - d[<<"CSN", 2>>]
       + d[<<"CSN", 3>>] - d[<<"CSN", 4>>]
       + d[<<"CSN", 5>>] - d[<<"CSN", 6>>]
       + d[<<"CSN", 7>>] - d[<<"CSN", 8>>]
       + d[<<"CSN", 9>>] + d[<<"CSN", 10>>]

\* Mutant: the first item added instead of subtracted.
ScoreNFirstAdded(d) ==
    38 + d[<<"EST", 1>>] + d[<<"EST", 2>>]
       - d[<<"EST", 3>>] + d[<<"EST", 4>>]
       - d[<<"EST", 5>>] - d[<<"EST", 6>>]
       - d[<<"EST", 7>>] - d[<<"EST", 8>>]
       - d[<<"EST", 9>>] - d[<<"EST", 10>>]

\* Lines 76-80.
ScoreN(d) ==
    38 - d[<<"EST", 1>>] + d[<<"EST", 2>>]
       - d[<<"EST", 3>>] + d[<<"EST", 4>>]
       - d[<<"EST", 5>>] - d[<<"EST", 6>>]
       - d[<<"EST", 7>>] - d[<<"EST", 8>>]
       - d[<<"EST", 9>>] - d[<<"EST", 10>>]

\* Mutant: the last term subtracted too, which leaves 8 + 2 * OPN1.
ScoreOFewerTerms(d) ==
    8 + d[<<"OPN", 1>>] - d[<<"OPN", 1>>]
      + d[<<"OPN", 1>>] - d[<<"OPN", 1>>]
      + d[<<"OPN", 1>>] - d[<<"OPN", 1>>]
      + d[<<"OPN", 1>>] + d[<<"OPN", 1>>]
      + d[<<"OPN", 1>>] - d[<<"OPN", 1>>]

\* Lines 82-86: every term reads column OPN1.
ScoreO(d) ==
    8 + d[<<"OPN", 1>>] - d[<<"OPN", 1>>]
      + d[<<"OPN", 1>>] - d[<<"OPN", 1>>]
      + d[<<"OPN", 1>>] - d[<<"OPN", 1>>]
      + d[<<"OPN", 1>>] + d[<<"OPN", 1>>]
      + d[<<"OPN", 1>>] + d[<<"OPN", 1>>]

InitCP ==
    /\ \E g \in Groups, D \in VariedSets :
          \E v \in [D -> ItemValues] :
              cp = [pc |-> "L58", dataframe |-> VariedRow(g, D, v)]
    /\ ro = Idle /\ fc = Idle /\ ca = Idle /\ pm = Idle

CP_E ==
    /\ cp.pc = "L58"
    /\ cp' = [pc |-> "L64",
              dataframe |-> WithColumn(cp.dataframe, "E", ScoreE(cp.dataframe))]
    /\ UNCHANGED <<ro, fc, ca, pm>>

CP_A ==
    /\ cp.pc = "L64"
    /\ cp' = [pc |-> "L70",
              dataframe |-> WithColumn(cp.dataframe, "A", ScoreA(cp.dataframe))]
    /\ UNCHANGED <<ro, fc, ca, pm>>

CP_C ==
    /\ cp.pc = "L70"
    /\ cp' = [pc |-> "L76",
              dataframe |-> WithColumn(cp.dataframe, "C", ScoreC(cp.dataframe))]
    /\ UNCHANGED <<ro, fc, ca, pm>>

CP_N ==
    /\ cp.pc = "L76"
    /\ cp' = [pc |-> "L82",
              dataframe |-> WithColumn(cp.dataframe, "N", ScoreN(cp.dataframe))]
    /\ UNCHANGED <<ro, fc, ca, pm>>

\* The last assignment, and return dataframe.
CP_O ==
    /\ cp.pc = "L82"
    /\ cp' = [pc |-> "returned",
              dataframe |-> WithColumn(cp.dataframe, "O", ScoreO(cp.dataframe))]
    /\ UNCHANGED <<ro, fc, ca, pm>>

NextCP == CP_E \/ CP_A \/ CP_C \/ CP_N \/ CP_O

SpecCP == InitCP /\ [][NextCP]_vars

\* base plus the items of group g of row d, each under its sign.
RECURSIVE SignedSum(_, _, _, _)
SignedSum(d, g, signs, n) ==
    IF n = 0 THEN 0
    ELSE SignedSum(d, g, signs, n - 1) + signs[n] * d[<<g, n>>]

Score(name) == cp.dataframe[<<name, 0>>]

Item(g, i) == cp.dataframe[<<g, i>>]

\* C2 (as claimed): O = 8 + OPN1 in every scored row.
C2_OpennessOneTerm ==
    cp.pc = "returned" => Score("O") = 8 + Item("OPN", 1)

\* C2 (amended): the ten references to OPN1 are seven additions and three
\* subtractions around the 8, so O = 8 + 4 * OPN1 in every scored row, and no
\* other OPN item has a part in it.
C2_OpennessFourTerms ==
    cp.pc = "returned" => Score("O") = 8 + 4 * Item("OPN", 1)

C2_Witness ==
    /\ cp.pc = "returned"
    /\ Item("OPN", 1) = 5
    /\ Item("OPN", 2) = 1
    /\ Score("O") = 28

\* C3 (as claimed): N = 38 with EST1..EST10 under (+,+,-,+,-,-,-,-,-,-).
C3_NeuroticismFirstAdded ==
    cp.pc = "returned" =>
        Score("N") = 38 + SignedSum(cp.dataframe, "EST",
                                    <<1, 1, -1, 1, -1, -1, -1, -1, -1, -1>>, 10)

\* C3 (amended): N = 38 with EST1..EST10 under (-,+,-,+,-,-,-,-,-,-): EST1 is
\* subtracted.
C3_NeuroticismFirstSubtracted ==
    cp.pc = "returned" =>
        Score("N") = 38 + SignedSum(cp.dataframe, "EST",
                                    <<-1, 1, -1, 1, -1, -1, -1, -1, -1, -1>>, 10)

C3_Witness ==
    /\ cp.pc = "returned"
    /\ Item("EST", 1) = 5
    /\ Item("EST", 2) = 1
    /\ Score("N") = 16

\* C4: E = 20 with EXT1..EXT10 under (+,-,+,-,+,-,+,-,+,-), A = 14 with
\* AGR1..AGR10 under (-,+,-,+,-,+,-,+,+,+), C = 14 with CSN1..CSN10 under
\* (+,-,+,-,+,-,+,-,+,+); ten equal EXT items give E = 20.
C4_ExtAgrCsnFormulas ==
    cp.pc = "returned" =>
        /\ Score("E") = 20 + SignedSum(cp.dataframe, "EXT",
                                       <<1, -1, 1, -1, 1, -1, 1, -1, 1, -1>>, 10)
        /\ Score("A") = 14 + SignedSum(cp.dataframe, "AGR",
                                       <<-1, 1, -1, 1, -1, 1, -1, 1, 1, 1>>, 10)
        /\ Score("C") = 14 + SignedSum(cp.dataframe, "CSN",
                                       <<1, -1, 1, -1, 1, -1, 1, -1, 1, 1>>, 10)
        /\ (\A i \in 1..10 : Item("EXT", i) = Item("EXT", 1)) => Score("E") = 20

C4_Witness ==
    /\ cp.pc = "returned"
    /\ Item("CSN", 9) = 5
    /\ Item("CSN", 10) = 1
    /\ Score("C") = 20
    /\ Score("E") = 20
    /\ Score("A") = 20


(***************************************************************************)
(* remove_outliers(dataframe, column_names, low = 5, high = 95)            *)
(*                                                                         *)
(* The dataframe is the sequence of its rows, each a record of the two     *)
(* numeric columns a and b.  A percentile is kept multiplied by 100, which *)
(* makes numpy's linear interpolation exact integer arithmetic.            *)
(***************************************************************************)
NumericColumns == {"a", "b"}

CellValues == 0..2

\* The dataframe has at most MaxRows rows.
MaxRows == 3

\* column_names has at most MaxColumnNames entries.
MaxColumnNames == 2

\* The defaults of the keyword arguments low and high.
DefaultLow == 5

DefaultHigh == 95

PercentilePairs == {<<DefaultLow, DefaultHigh>>, <<25, 75>>, <<0, 50>>}

SeqsUpTo(S, n) == UNION {[1..k -> S] : k \in 0..n}

\* The values in ascending order.
RECURSIVE Sorted(_)
Sorted(values) ==
    IF values = <<>> THEN <<>>
    ELSE LET i == CHOOSE k \in DOMAIN values :
                      \A j \in DOMAIN values : values[k] <= values[j]
             rest == [k \in 1..(Len(values) - 1) |->
                         IF k < i THEN values[k] ELSE values[k + 1]]
         IN  <<values[i]>> \o Sorted(rest)

\* 100 * np.percentile(values, q) for a non-empty array: the sorted values,
\* interpolated linearly at the position q / 100 * (n - 1).
Percentile100(values, q) ==
    LET sorted == Sorted(values)
        pos == q * (Len(values) - 1)
        k == (pos \div 100) + 1
        rem == pos % 100
    IN  IF rem = 0 THEN 100 * sorted[k]
        ELSE 100 * sorted[k] + rem * (sorted[k + 1] - sorted[k])

ColumnValues(frame, name) == [i \in DOMAIN frame |-> frame[i][name]]

\* frame[(frame[name] > vlow) & (frame[name] < vhigh)]; a comparison with
\* nan is False.
RowsBetween(frame, name, vlow, vhigh) ==
    LET Keep(row) == /\ ~vlow.nan /\ ~vhigh.nan
                     /\ 100 * row[name] > vlow.v100
                     /\ 100 * row[name] < vhigh.v100
    IN  SelectSeq(frame, Keep)

\* Python's round(num / den) to an integer: halves go to the even neighbour.
PyRound(num, den) ==
    LET q == num \div den
        r == num % den
    IN  IF 2 * r < den THEN q
        ELSE IF 2 * r > den THEN q + 1
        ELSE IF q % 2 = 0 THEN q ELSE q + 1

\* Mutant: every column filters what the columns before it left.
FilteredFrameChained(r) == IF r.bound THEN r.out_df ELSE r.dataframe

\* The frame line 33 filters: the argument, whatever out_df holds.
FilteredFrame(r) == r.dataframe

Number(v) == [nan |-> FALSE, v100 |-> v]

NaN == [nan |-> TRUE, v100 |-> 0]

InitRO ==
    /\ \E frame \in SeqsUpTo([NumericColumns -> CellValues], MaxRows),
          names \in SeqsUpTo(NumericColumns, MaxColumnNames),
          band \in PercentilePairs :
          ro = [pc |-> "L31", dataframe |-> frame, column_names |-> names,
                low |-> band[1], high |-> band[2], i |-> 0,
                vlow |-> NaN, vhigh |-> NaN, bound |-> FALSE, out_df |-> <<>>,
                printed |-> -1, error |-> "none"]
    /\ cp = Idle /\ fc = Idle /\ ca = Idle /\ pm = Idle

\* for column_name in column_names:
RO_For ==
    /\ ro.pc = "L31"
    /\ IF ro.i < Len(ro.column_names)
         THEN ro' = [ro EXCEPT !.pc = "L32", !.i = ro.i + 1]
         ELSE ro' = [ro EXCEPT !.pc = "L35"]
    /\ UNCHANGED <<cp, fc, ca, pm>>

\* vlow,vhigh = np.percentile(dataframe[column_name].values, q=[low,high])
\* Of an empty array numpy gives nan or raises IndexError, by its version.
RO_Percentile ==
    /\ ro.pc = "L32"
    /\ LET values == ColumnValues(ro.dataframe, ro.column_names[ro.i])
       IN  IF values = <<>>
             THEN \/ ro' = [ro EXCEPT !.pc = "L33", !.vlow = NaN, !.vhigh = NaN]
                  \/ ro' = [ro EXCEPT !.pc = "raised", !.error = "IndexError"]
             ELSE ro' = [ro EXCEPT !.pc = "L33",
                                   !.vlow = Number(Percentile100(values, ro.low)),
                                   !.vhigh = Number(Percentile100(values, ro.high))]
    /\ UNCHANGED <<cp, fc, ca, pm>>

\* out_df = dataframe[(dataframe[column_name] > vlow) & (dataframe[column_name] < vhigh)]
RO_Filter ==
    /\ ro.pc = "L33"
    /\ ro' = [ro EXCEPT !.pc = "L31", !.bound = TRUE,
                        !.out_df = RowsBetween(FilteredFrame(ro), ro.column_names[ro.i],
                                               ro.vlow, ro.vhigh)]
    /\ UNCHANGED <<cp, fc, ca, pm>>

\* print("removed {} % of the rows".format(round(100*(n - m)/n), decimals=4))
\* return out_df
RO_PrintReturn ==
    /\ ro.pc = "L35"
    /\ IF ~ro.bound
         THEN ro' = [ro EXCEPT !.pc = "raised", !.error = "UnboundLocalError"]
         ELSE IF Len(ro.dataframe) = 0
         THEN ro' = [ro EXCEPT !.pc = "raised", !.error = "ZeroDivisionError"]
         ELSE ro' = [ro EXCEPT !.pc = "returned",
                               !.printed = PyRound(100 * (Len(ro.dataframe) - Len(ro.out_df)),
                                                   Len(ro.dataframe))]
    /\ UNCHANGED <<cp, fc, ca, pm>>

NextRO == RO_For \/ RO_Percentile \/ RO_Filter \/ RO_PrintReturn

SpecRO == InitRO /\ [][NextRO]_vars

\* Row r of the input lies strictly inside the [low, high] percentile band
\* of column name, the percentiles taken over all input rows.
InBand(r, name) ==
    LET values == ColumnValues(ro.dataframe, name)
    IN  /\ 100 * r[name] > Percentile100(values, ro.low)
        /\ 100 * r[name] < Percentile100(values, ro.high)

Text(str) == [kind |-> "text", s |-> str, num |-> 0, den |-> 1]

Missing == [kind |-> "missing", s |-> "", num |-> 0, den |-> 1]

RECURSIVE Gcd(_, _)
Gcd(x, y) == IF y = 0 THEN x ELSE Gcd(y, x % y)

Fraction(n, d) ==
    LET g == Gcd(IF n < 0 THEN -n ELSE n, d)
    IN  [kind |-> "number", s |-> "", num |-> n \div g, den |-> d \div g]

\* The value fillna writes.
FillValue == -100

Traits == <<"E", "A", "C", "N", "O">>

\* The shapefile's records (ADMIN, ADM0_A3, geometry) the model reads.
Shapefile ==
    << [ADMIN |-> Text("France"), ADM0_A3 |-> Text("FRA"), geometry |-> Text("shape of France")],
       [ADMIN |-> Text("Antarctica"), ADM0_A3 |-> Text("ATA"), geometry |-> Text("shape of Antarctica")],
       [ADMIN |-> Text("United States of America"), ADM0_A3 |-> Text("USA"),
        geometry |-> Text("shape of United States of America")],
       [ADMIN |-> Text("Kosovo"), ADM0_A3 |-> Text("KOS"), geometry |-> Text("shape of Kosovo")] >>

\* coco.convert(codes, to='ISO2') on one code: a code the converter does
\* not know becomes 'not found'.
ConvertIso2(code) ==
    CASE code = Text("FRA") -> Text("FR")
      [] code = Text("USA") -> Text("US")
      [] code = Text("ATA") -> Text("AQ")
      [] code = Text("DEU") -> Text("DE")
      [] OTHER -> Text("not found")

\* The country values of the respondents: 'ZZ' has no shape.
RespondentCountries == {"US", "FR", "ZZ"}

\* The (E, A, C, N, O) scores a respondent row can hold.
ScoreProfiles == {<<20, 20, 20, 20, 20>>, <<31, 12, 25, 7, 28>>, <<0, 40, 13, 38, 12>>}

\* The respondent table has at most MaxRespondents rows.
MaxRespondents == 3

RespondentRow(c, p) ==
    [country |-> Text(c), E |-> Fraction(p[1], 1), A |-> Fraction(p[2], 1),
     C |-> Fraction(p[3], 1), N |-> Fraction(p[4], 1), O |-> Fraction(p[5], 1)]

RespondentRows == {RespondentRow(c, p) : c \in RespondentCountries, p \in ScoreProfiles}

RECURSIVE SumOf(_, _)
SumOf(rows, name) ==
    IF rows = <<>> THEN 0 ELSE rows[1][name].num + SumOf(Tail(rows), name)

\* dataframe.groupby(by='country').mean()[name]: a Series from the countries
\* that occur to the mean of their rows (the scores are whole numbers).
GroupMean(frame, name) ==
    LET Of(c) == LET Is(r) == r.country = c IN SelectSeq(frame, Is)
    IN  [c \in {frame[i].country : i \in DOMAIN frame} |->
            Fraction(SumOf(Of(c), name), Len(Of(c)))]

\* gpd.read_file(shapefile)[['ADMIN', 'ADM0_A3', 'geometry']] with the
\* columns renamed to country, country_code, geometry.
ReadShapes ==
    [i \in DOMAIN Shapefile |->
        [country |-> Shapefile[i].ADMIN, country_code |-> Shapefile[i].ADM0_A3,
         geometry |-> Shapefile[i].geometry]]

SetToSeq(S) == CHOOSE q \in [1..Cardinality(S) -> S] : \A x \in S : \E i \in DOMAIN q : q[i] = x

\* Mutant: how='inner': only the matching rows survive the merge.
MergeInner(left, columns, series, name) ==
    LET Matches(r) == r["country_code"] \in DOMAIN series
        matched == SelectSeq(left, Matches)
    IN  [i \in DOMAIN matched |-> (name :> series[matched[i]["country_code"]]) @@ matched[i]]

\* left.merge(series, left_on='country_code', right_on='country', how='outer')
\* where series is indexed by country and named name: every left row, with
\* the series value of its country_code or a missing value; then one row
\* for every index value no left row matched, in which all the left columns
\* (country and country_code among them) are missing.
MergeOuter(left, columns, series, name) ==
    LET leftRows ==
            [i \in DOMAIN left |->
                (name :> IF left[i]["country_code"] \in DOMAIN series
                           THEN series[left[i]["country_code"]] ELSE Missing) @@ left[i]]
        unmatched == {c \in DOMAIN series :
                         \A i \in DOMAIN left : left[i]["country_code"] # c}
        rightOnly == SetToSeq(unmatched)
        rightRows ==
            [i \in DOMAIN rightOnly |->
                (name :> series[rightOnly[i]]) @@ [c \in columns |-> Missing]]
    IN  leftRows \o rightRows

\* merged.dropna(subset=[name], inplace=True)
DropNa(frame, name) ==
    LET Has(r) == r[name] # Missing IN SelectSeq(frame, Has)

\* merged[name].fillna(value, inplace=True)
FillNa(frame, name, value) ==
    [i \in DOMAIN frame |->
        [frame[i] EXCEPT ![name] = IF @ = Missing THEN Fraction(value, 1) ELSE @]]

\* gdf.drop(labels) without inplace and without assignment: the result is
\* thrown away and gdf is as before.
DropDiscarded(frame, name) == frame

InitCA ==
    /\ \E frame \in SeqsUpTo(RespondentRows, MaxRespondents) :
          ca = [pc |-> "L129", dataframe |-> frame, means |-> <<>>,
                gdf |-> <<>>, merged |-> <<>>, k |-> 1]
    /\ ro = Idle /\ cp = Idle /\ fc = Idle /\ pm = Idle

\* Edf ... Odf: the five group means (lines 129-133).
CA_GroupBy ==
    /\ ca.pc = "L129"
    /\ ca' = [ca EXCEPT !.pc = "L136",
                        !.means = [t \in DOMAIN Traits |-> GroupMean(ca.dataframe, Traits[t])]]
    /\ UNCHANGED <<ro, cp, fc, pm>>

\* Lines 135-137.
CA_ReadFile ==
    /\ ca.pc = "L136"
    /\ ca' = [ca EXCEPT !.pc = "L138", !.gdf = ReadShapes]
    /\ UNCHANGED <<ro, cp, fc, pm>>

\* gdf.drop(gdf[gdf['country'] =='Antarctica'].index)
CA_DropAntarctica ==
    /\ ca.pc = "L138"
    /\ ca' = [ca EXCEPT !.pc = "L139", !.gdf = DropDiscarded(ca.gdf, "Antarctica")]
    /\ UNCHANGED <<ro, cp, fc, pm>>

\* gdf['country_code']=coco.convert(gdf['country_code'].to_list(), to= 'ISO2')
CA_Convert ==
    /\ ca.pc = "L139"
    /\ ca' = [ca EXCEPT !.pc = "L141", !.k = 1,
                        !.gdf = [i \in DOMAIN ca.gdf |->
                                    [ca.gdf[i] EXCEPT !.country_code = ConvertIso2(@)]],
                        !.merged = <<>>]
    /\ UNCHANGED <<ro, cp, fc, pm>>

\* Lines 141-145: the k-th of the five merges, the first one on gdf.
CA_Merge ==
    /\ ca.pc = "L141"
    /\ LET left == IF ca.k = 1 THEN ca.gdf ELSE ca.merged
           columns == {"country", "country_code", "geometry"}
                          \cup {Traits[t] : t \in 1..(ca.k - 1)}
       IN  ca' = [ca EXCEPT !.merged = MergeOuter(left, columns, ca.means[ca.k], Traits[ca.k]),
                            !.k = IF ca.k = Len(Traits) THEN 1 ELSE ca.k + 1,
                            !.pc = IF ca.k = Len(Traits) THEN "L146" ELSE "L141"]
    /\ UNCHANGED <<ro, cp, fc, pm>>

\* merged.dropna(subset=['country'], inplace=True)
CA_DropNa ==
    /\ ca.pc = "L146"
    /\ ca' = [ca EXCEPT !.pc = "L147", !.merged = DropNa(ca.merged, "country")]
    /\ UNCHANGED <<ro, cp, fc, pm>>

\* Lines 147-151: the k-th of the five fillna calls; after the fifth,
\* return merged.
CA_FillNa ==
    /\ ca.pc = "L147"
    /\ ca' = [ca EXCEPT !.merged = FillNa(ca.merged, Traits[ca.k], FillValue),
                        !.k = IF ca.k = Len(Traits) THEN 1 ELSE ca.k + 1,
                        !.pc = IF ca.k = Len(Traits) THEN "returned" ELSE "L147"]
    /\ UNCHANGED <<ro, cp, fc, pm>>

NextCA ==
    \/ CA_GroupBy \/ CA_ReadFile \/ CA_DropAntarctica \/ CA_Convert
    \/ CA_Merge \/ CA_DropNa \/ CA_FillNa

SpecCA == InitCA /\ [][NextCA]_vars

\* Shape i of the shapefile has a respondent row: a row whose country is the
\* two-letter code of the shape.
HasRespondent(i) ==
    \E j \in DOMAIN ca.dataframe :
        ca.dataframe[j].country = ConvertIso2(Shapefile[i].ADM0_A3)

MapValues == {-10000, -5000, -4999, -4, 5, 1985, 2015, 3125}

\* The dataframe has at most MaxMapRows rows.
MaxMapRows == 3

\* The cut of line 166 (rows with a value above -50), in hundredths.
NoDataCut == -5000

\* The offset of the 'no values' band below vmin (vmin-5), in tenths.
NoDataOffset == 50

\* brewer['RdYlBu'][10]
PaletteSize == 10

\* head(10)
HeadCount == 10

\* The keys of tick_labels, in the order the dict holds them, and the tenth
\* of the range each one stands for.
TickKeys == <<"no values", "0", "10", "20", "30", "40", "50", "60", "70", "80", "90", "100">>

\* dataframe[dataframe[column] > -50][column].values
ValuesAbove(frame, cut) ==
    LET Above(x) == x > cut IN SelectSeq(frame, Above)

\* np.min, np.max of a non-empty array.
ArrayMin(values) == Sorted(values)[1]

ArrayMax(values) == Sorted(values)[Len(values)]

\* str(np.round(x, decimals=1)) of x = milli / 1000: the sign, the whole
\* part and the one decimal numpy prints.  negzero says that x is the float
\* -0.0, which rounds to itself and prints as '-0.0'.
StrRound1(milli, negzero) ==
    LET t == PyRound(milli, 100)
        m == IF t < 0 THEN -t ELSE t
    IN  [negative |-> (t < 0) \/ (t = 0 /\ milli < 0) \/ (milli = 0 /\ negzero),
         whole |-> m \div 10, tenth |-> m % 10]

\* Mutant: the dict written with the 'no values' entry left out.
TickLabelsNoMarker(vmin, vminNegZero, r) ==
    [i \in 1..(Len(TickKeys) - 1) |->
        [key |-> TickKeys[i + 1],
         label |-> StrRound1(100 * vmin + (i - 1) * r, FALSE)]]

\* Lines 172-184: the entry 'no values' for vmin-5, then one entry for
\* vmin + k/10 * r, k = 0..10 (the first of them written as plain vmin).
TickLabels(vmin, vminNegZero, r) ==
    [i \in DOMAIN TickKeys |->
        [key |-> TickKeys[i],
         label |-> IF i = 1 THEN StrRound1(100 * (vmin - NoDataOffset), FALSE)
                   ELSE IF i = 2 THEN StrRound1(100 * vmin, vminNegZero)
                   ELSE StrRound1(100 * vmin + (i - 2) * r, FALSE)]]

Reverse(q) == [i \in DOMAIN q |-> q[Len(q) + 1 - i]]

Head10(q) == SubSeq(q, 1, IF Len(q) < HeadCount THEN Len(q) ELSE HeadCount)

InitPM ==
    /\ \E frame \in SeqsUpTo(MapValues, MaxMapRows) :
          pm = [pc |-> "L159", dataframe |-> frame, palette |-> 0, vals |-> <<>>,
                vmin |-> 0, vminNegZero |-> FALSE, r |-> 0,
                low |-> 0, high |-> 0, tick_labels |-> <<>>,
                top |-> <<>>, error |-> "none"]
    /\ ro = Idle /\ cp = Idle /\ fc = Idle /\ ca = Idle

\* Lines 159-166: the GeoJSON source, the palette, and
\* vals=dataframe[dataframe[column]>-50][column].values
PM_Vals ==
    /\ pm.pc = "L159"
    /\ pm' = [pm EXCEPT !.pc = "L168", !.palette = PaletteSize,
                        !.vals = ValuesAbove(pm.dataframe, NoDataCut)]
    /\ UNCHANGED <<ro, cp, fc, ca>>

\* vmin=np.round(np.min(vals), decimals = 1): np.min of an empty array
\* raises ValueError.
PM_Min ==
    /\ pm.pc = "L168"
    /\ IF pm.vals = <<>>
         THEN pm' = [pm EXCEPT !.pc = "raised", !.error = "ValueError"]
         ELSE pm' = [pm EXCEPT !.pc = "L169",
                               !.vmin = PyRound(ArrayMin(pm.vals), 10),
                               !.vminNegZero = /\ ArrayMin(pm.vals) < 0
                                               /\ PyRound(ArrayMin(pm.vals), 10) = 0]
    /\ UNCHANGED <<ro, cp, fc, ca>>

\* r= np.max(vals) - np.min(vals)
PM_Range ==
    /\ pm.pc = "L169"
    /\ pm' = [pm EXCEPT !.pc = "L170", !.r = ArrayMax(pm.vals) - ArrayMin(pm.vals)]
    /\ UNCHANGED <<ro, cp, fc, ca>>

\* color_mapper = LinearColorMapper(palette= palette, low = vmin-5, high= vmin + r)
PM_ColorMapper ==
    /\ pm.pc = "L170"
    /\ pm' = [pm EXCEPT !.pc = "L172",
                        !.low = 100 * (pm.vmin - NoDataOffset),
                        !.high = 100 * pm.vmin + 10 * pm.r]
    /\ UNCHANGED <<ro, cp, fc, ca>>

\* tick_labels= {...}
PM_TickLabels ==
    /\ pm.pc = "L172"
    /\ pm' = [pm EXCEPT !.pc = "L185",
                        !.tick_labels = TickLabels(pm.vmin, pm.vminNegZero, pm.r)]
    /\ UNCHANGED <<ro, cp, fc, ca>>

\* Lines 185-211: the figure is shown and the ten largest values are
\* printed, largest first.
PM_Show ==
    /\ pm.pc = "L185"
    /\ pm' = [pm EXCEPT !.pc = "returned",
                        !.top = Head10(Reverse(Sorted(pm.dataframe)))]
    /\ UNCHANGED <<ro, cp, fc, ca>>

NextPM == PM_Vals \/ PM_Min \/ PM_Range \/ PM_ColorMapper \/ PM_TickLabels \/ PM_Show

SpecPM == InitPM /\ [][NextPM]_vars

\* The number a label prints, in tenths.
LabelValue(label) ==
    (IF label.negative THEN -1 ELSE 1) * (10 * label.whole + label.tenth)

HasData == \E i \in DOMAIN pm.dataframe : pm.dataframe[i] > NoDataCut

LabelsAscend ==
    \A i \in 1..(Len(pm.tick_labels) - 1) :
        LabelValue(pm.tick_labels[i].label) <= LabelValue(pm.tick_labels[i + 1].label)

\* C10 (as claimed): with a value above -50 in the column, plot_map builds
\* exactly 11 tick labels, from the 'no values' marker on, whose values
\* ascend in that order, and the colour mapper's low is at most its high.
C10_ElevenLabels ==
    (pm.pc = "returned" /\ HasData) =>
        /\ Len(pm.tick_labels) = 11
        /\ LabelsAscend
        /\ pm.low <= pm.high

\* C10 (amended): with a value above -50 in the column, plot_map builds
\* exactly 12 tick labels: the 'no values' marker at vmin - 5 and the eleven
\* labels of vmin + k/10 of the range, k = 0..10.  Their values never descend
\* in that order, the marker is below the label of vmin, and the colour
\* mapper's low is at most its high.
C10_TwelveLabels ==
    (pm.pc = "returned" /\ HasData) =>
        /\ Len(pm.tick_labels) = 12
        /\ pm.tick_labels[1].key = "no values"
        /\ LabelValue(pm.tick_labels[1].label) = pm.vmin - 50
        /\ \A k \in 0..10 :
              LabelValue(pm.tick_labels[k + 2].label) = PyRound(100 * pm.vmin + k * pm.r, 100)
        /\ LabelValue(pm.tick_labels[1].label) < LabelValue(pm.tick_labels[2].label)
        /\ LabelsAscend
        /\ pm.low <= pm.high

\* A map of two different values: the labels run from 14.8 to 31.2.
C10_Witness ==
    /\ pm.pc = "returned"
    /\ pm.vals = <<1985, 3125>>
    /\ Len(pm.dataframe) = 3
    /\ LabelValue(pm.tick_labels[1].label) = 148
    /\ LabelValue(pm.tick_labels[12].label) = 312

(***************************************************************************)
(* The five functions together: any one of them is called.                 *)
(***************************************************************************)
Init == InitRO \/ InitCP \/ InitFC \/ InitCA \/ InitPM

Next == NextRO \/ NextCP \/ NextFC \/ NextCA \/ NextPM

Spec == Init /\ [][Next]_vars

\* C9 (as claimed): remove_outliers on a table without rows, and plot_map on
\* a table without a value above -50, end in an explicit empty-result
\* condition (a returned result, or an error that names the empty input),
\* not in an exception of the percentile, division or minimum computation.
C9_EmptyInputHandled ==
    /\ (ro.pc \in {"returned", "raised"} /\ ro.column_names # <<>>
            /\ ro.dataframe = <<>>)
          => (ro.pc = "returned" \/ ro.error = "EmptyInput")
    /\ (pm.pc \in {"returned", "raised"} /\ ~HasData)
          => (pm.pc = "returned" \/ pm.error = "EmptyInput")

=============================================================================
